---- MODULE Spec2Model ----
(***************************************************************************)
(* The Review component (src/src/component/Review.jsx, the extended        *)
(* variant with sorting and filtering; src/unnamed/part_000 is the basic   *)
(* variant with the same state and handlers and no sortBy/filterRating).   *)
(*                                                                         *)
(* Representation.                                                         *)
(*   - A string is a sequence of one-character strings.                    *)
(*   - An instant of the wall clock is <<day, ms>>: whole days since the   *)
(*     epoch and milliseconds into that day.  Date.now() is the number     *)
(*     day * MsPerDay + ms, which is beyond TLC's integers, so instants    *)
(*     and the ids taken from them are kept as pairs and compared with     *)
(*     TimeLess.  A small number n of milliseconds (the seeds' ids 1 and   *)
(*     2) is the pair Ms(n).                                               *)
(*   - A calendar date "YYYY-MM-DD" is its day number since the epoch.     *)
(*   - formErrors is a function from the keys present in the object to     *)
(*     their messages; a key may be absent, hold '' or hold a message.     *)
(*   - handleSubmit is invoked for any draft: the browser's own check of   *)
(*     the `required` attributes is outside the component.                 *)
(*   - The wall clock advances in steps of the submission delay and      *)
(*     never goes backwards; a timer fires at or after its due instant.    *)
(*   - hoveredRating is the hover state of the form's interactive          *)
(*     StarRating, the only one whose pointer handlers act.  StarRating    *)
(*     is declared inside Review, so every render of Review mounts it      *)
(*     anew with hoveredRating 0.                                          *)
(***************************************************************************)
EXTENDS Integers, Sequences, FiniteSets, TLC

VARIABLES reviews, newReview, showForm, isSubmitting, formErrors,
          sortBy, filterRating, reviewCountRef, timers, now,
          hoveredRating

vars == <<reviews, newReview, showForm, isSubmitting, formErrors,
          sortBy, filterRating, reviewCountRef, timers, now,
          hoveredRating>>

(* ------------------------------ bounds -------------------------------- *)

\* Commits allowed on top of the seed reviews.
MaxCommits == 2
\* Clock steps allowed after the page is loaded.
MaxTicks == 3
\* Longest list handed to the list operators in SpecList.
MaxListLen == 4

(* ------------------------- program constants -------------------------- *)

MsPerDay == 86400000
SubmitDelayMs == 1000
MinCommentLen == 10
MaxStars == 5
\* "2024-01-15" and "2024-01-10" as day numbers since 1970-01-01.
SeedDate1 == 19737
SeedDate2 == 19732

(* ------------------------------ strings ------------------------------- *)

Rep(c, n) == [i \in 1..n |-> c]
Sp(n) == Rep(" ", n)
Ch(n) == Rep("x", n)

WhiteSpace == {" ", "\t", "\n"}

IsSpace(c) == c \in WhiteSpace

RECURSIVE TrimStart(_)
TrimStart(s) ==
    IF s = <<>> THEN <<>>
    ELSE IF IsSpace(Head(s)) THEN TrimStart(Tail(s)) ELSE s

RECURSIVE TrimEnd(_)
TrimEnd(s) ==
    IF s = <<>> THEN <<>>
    ELSE IF IsSpace(s[Len(s)]) THEN TrimEnd(SubSeq(s, 1, Len(s) - 1)) ELSE s

\* String.prototype.trim
Trim(s) == TrimEnd(TrimStart(s))

(* ------------------------------- clock -------------------------------- *)

Ms(n) == <<n \div MsPerDay, n % MsPerDay>>

AddMs(t, n) == <<t[1] + (t[2] + n) \div MsPerDay, (t[2] + n) % MsPerDay>>

TimeLess(a, b) == a[1] < b[1] \/ (a[1] = b[1] /\ a[2] < b[2])

TimeLeq(a, b) == a = b \/ TimeLess(a, b)

\* new Date().toISOString().split('T')[0]
ToISODate(t) == t[1]

\* new Date(dateString)
ParseDate(d) == <<d, 0>>

\* The page is loaded on the day of the newest seed review, two submission
\* delays before midnight, so that commits fall on both sides of a date change.
Clock0 == <<SeedDate1, MsPerDay - 2 * SubmitDelayMs>>

ClockEnd == AddMs(Clock0, MaxTicks * SubmitDelayMs)

(* ------------------------------- state -------------------------------- *)

Fields == {"name", "rating", "comment"}

SeedName1 == <<"J", "o", "h", "n", " ", "D", "o", "e">>

SeedComment1 ==
    <<"E", "x", "c", "e", "l", "l", "e", "n", "t", " ", "p", "r",
      "o", "d", "u", "c", "t", "!", " ", "H", "i", "g", "h", "l",
      "y", " ", "r", "e", "c", "o", "m", "m", "e", "n", "d", "e",
      "d", ".">>

SeedName2 == <<"J", "a", "n", "e", " ", "S", "m", "i", "t", "h">>

SeedComment2 ==
    <<"G", "o", "o", "d", " ", "q", "u", "a", "l", "i", "t", "y",
      ",", " ", "f", "a", "s", "t", " ", "d", "e", "l", "i", "v",
      "e", "r", "y", ".", " ", "V", "e", "r", "y", " ", "s", "a",
      "t", "i", "s", "f", "i", "e", "d", ".">>

Seeds ==
    << [id |-> Ms(1), name |-> SeedName1, rating |-> 5,
        comment |-> SeedComment1, date |-> SeedDate1],
       [id |-> Ms(2), name |-> SeedName2, rating |-> 4,
        comment |-> SeedComment2, date |-> SeedDate2] >>

EmptyDraft == [name |-> <<>>, rating |-> 0, comment |-> <<>>]

EmptyErrors == [f \in {} |-> ""]

Init ==
    /\ reviews = Seeds
    /\ newReview = EmptyDraft
    /\ showForm = FALSE
    /\ isSubmitting = FALSE
    /\ formErrors = EmptyErrors
    /\ sortBy = "date"
    /\ filterRating = 0
    /\ reviewCountRef = 2
    /\ timers = <<>>
    /\ now = Clock0
    /\ hoveredRating = 0

(* ----------------------------- validation ----------------------------- *)

\* { ...obj, [k]: v }
WithKey(obj, k, v) ==
    [f \in DOMAIN obj \cup {k} |-> IF f = k THEN v ELSE obj[f]]

\* A JavaScript truth test of obj[k] for an object of strings.
Truthy(obj, k) == k \in DOMAIN obj /\ obj[k] # ""

NameErrors(draft, errors) ==
    IF Trim(draft.name) = <<>>
    THEN WithKey(errors, "name", "Name is required")
    ELSE errors

RatingErrors(draft, errors) ==
    IF draft.rating = 0
    THEN WithKey(errors, "rating", "Please select a rating")
    ELSE errors

\* Mutant: the length test reads the untrimmed comment.
CommentErrorsUntrimmed(draft, errors) ==
    IF Trim(draft.comment) = <<>>
    THEN WithKey(errors, "comment", "Review comment is required")
    ELSE IF Len(draft.comment) < MinCommentLen
         THEN WithKey(errors, "comment",
                      "Review must be at least 10 characters long")
         ELSE errors

\* Mutant: the length test comes first, so an empty comment is "too short".
CommentErrorsLengthFirst(draft, errors) ==
    IF Len(Trim(draft.comment)) < MinCommentLen
    THEN WithKey(errors, "comment",
                 "Review must be at least 10 characters long")
    ELSE IF Trim(draft.comment) = <<>>
         THEN WithKey(errors, "comment", "Review comment is required")
         ELSE errors

CommentErrors(draft, errors) ==
    IF Trim(draft.comment) = <<>>
    THEN WithKey(errors, "comment", "Review comment is required")
    ELSE IF Len(Trim(draft.comment)) < MinCommentLen
         THEN WithKey(errors, "comment",
                      "Review must be at least 10 characters long")
         ELSE errors

\* Mutant: validation stops at the first rule that fails.
ValidationErrorsFirstOnly(draft) ==
    IF DOMAIN NameErrors(draft, EmptyErrors) # {}
    THEN NameErrors(draft, EmptyErrors)
    ELSE IF DOMAIN RatingErrors(draft, EmptyErrors) # {}
         THEN RatingErrors(draft, EmptyErrors)
         ELSE CommentErrors(draft, EmptyErrors)

\* The errors object validateForm builds and hands to setFormErrors.
ValidationErrors(draft) ==
    CommentErrors(draft, RatingErrors(draft, NameErrors(draft, EmptyErrors)))

\* validateForm's return value: Object.keys(errors).length === 0
validateForm(draft) == DOMAIN ValidationErrors(draft) = {}

(* --------------------------- derived values --------------------------- *)

RECURSIVE SumRatings(_)
SumRatings(list) ==
    IF list = <<>> THEN 0 ELSE Head(list).rating + SumRatings(Tail(list))

\* Mutant: the quotient is cut to one decimal, not rounded.
ToFixed1Truncating(num, den) == (10 * num) \div den

\* (num / den).toFixed(1), in tenths: the nearest tenth, the larger one of
\* two equally near (exact for den < 20, where every tie is a binary
\* fraction).
ToFixed1(num, den) == (20 * num + den) \div (2 * den)

\* averageRating, in tenths ("4.5" is 45; the number 0 is 0).
AverageOf(list) ==
    IF Len(list) > 0 THEN ToFixed1(SumRatings(list), Len(list)) ELSE 0

averageRating == AverageOf(reviews)

\* Mutant: the filter keeps the reviews rated at least filterRating.
FilterReviewsAtLeast(list, r) ==
    SelectSeq(list, LAMBDA review : r = 0 \/ review.rating >= r)

\* .filter(review => filterRating === 0 || review.rating === filterRating)
FilterReviews(list, r) ==
    SelectSeq(list, LAMBDA review : r = 0 \/ review.rating = r)

\* The sign of new Date(b.date) - new Date(a.date).
DateDiff(a, b) ==
    IF TimeLess(ParseDate(a.date), ParseDate(b.date)) THEN 1
    ELSE IF TimeLess(ParseDate(b.date), ParseDate(a.date)) THEN -1
    ELSE 0

\* Mutant: equal ratings are not ordered by date.
CompareRatingOnly(a, b, key) ==
    IF key = "rating" THEN b.rating - a.rating ELSE DateDiff(a, b)

\* The comparator handed to .sort (its sign is all that sort reads).
Compare(a, b, key) ==
    IF key = "rating"
    THEN IF b.rating - a.rating # 0 THEN b.rating - a.rating
         ELSE DateDiff(a, b)
    ELSE DateDiff(a, b)

\* Mutant: an unstable sort, which places an element before the elements
\* the comparator holds equal to it.
RECURSIVE InsertSortedUnstable(_, _, _)
InsertSortedUnstable(x, sorted, key) ==
    IF sorted = <<>> THEN <<x>>
    ELSE IF Compare(Head(sorted), x, key) >= 0 THEN <<x>> \o sorted
    ELSE <<Head(sorted)>> \o InsertSortedUnstable(x, Tail(sorted), key)

\* Array.prototype.sort is stable: an element is placed before the first
\* element that the comparator orders after it.
RECURSIVE InsertSorted(_, _, _)
InsertSorted(x, sorted, key) ==
    IF sorted = <<>> THEN <<x>>
    ELSE IF Compare(Head(sorted), x, key) > 0 THEN <<x>> \o sorted
    ELSE <<Head(sorted)>> \o InsertSorted(x, Tail(sorted), key)

RECURSIVE SortFrom(_, _, _)
SortFrom(list, acc, key) ==
    IF list = <<>> THEN acc
    ELSE SortFrom(Tail(list), InsertSorted(Head(list), acc, key), key)

SortReviews(list, key) == SortFrom(list, <<>>, key)

\* listReviews(sortKey, filterRating) on a list.
ListReviews(list, key, r) == SortReviews(FilterReviews(list, r), key)

sortedAndFilteredReviews == ListReviews(reviews, sortBy, filterRating)

\* The list the basic variant renders: reviews.map(...), the stored list as
\* it is.
reviewsList == reviews

\* Mutant: the rating wins over the hover value (rating || hoveredRating).
StarFilledRatingFirst(star, rating, hovered) ==
    star <= (IF rating # 0 THEN rating ELSE hovered)

\* A star's 'filled' class: star <= (hoveredRating || rating)
StarFilled(star, rating, hovered) ==
    star <= (IF hovered # 0 THEN hovered ELSE rating)

\* The five stars [1, 2, 3, 4, 5].map(...) renders.
StarFlags(rating, hovered) ==
    [star \in 1..MaxStars |-> StarFilled(star, rating, hovered)]

\* The stars of the form's interactive StarRating.
formStars == StarFlags(newReview.rating, hoveredRating)

(* ------------------------------- inputs ------------------------------- *)

NameInputs == {<<>>, Sp(1), <<" ", "A", "l", " ">>}

CommentInputs ==
    {<<>>, Sp(2), Ch(1), Sp(1) \o Ch(MinCommentLen - 1),
     Ch(MinCommentLen) \o Sp(1)}

StarInputs == {3, 4}

SortKeys == {"date", "rating"}

\* The filter select's options: value={0} and value={rating} reach the
\* handler as the strings e.target.value.
FilterOptions == {"0", "1", "2", "3", "4", "5"}

\* The options the main specification selects.
FilterInputs == {"0", "3", "4"}

\* Number(e.target.value) on an option's value.
ToNumber(s) ==
    CASE s = "0" -> 0 [] s = "1" -> 1 [] s = "2" -> 2
      [] s = "3" -> 3 [] s = "4" -> 4 [] s = "5" -> 5

\* The lists SpecList starts from: every list of at most MaxListLen reviews
\* over these ratings and dates, with ids by position.
ListRatings == {3, 4, 5}

ListDates == {SeedDate2, SeedDate1}

ListItems == [rating : ListRatings, date : ListDates]

MkList(items) ==
    [i \in 1..Len(items) |->
        [id |-> Ms(i), name |-> <<"A">>, rating |-> items[i].rating,
         comment |-> Ch(MinCommentLen), date |-> items[i].date]]

ListInputs ==
    {MkList(items) : items \in UNION {[1..n -> ListItems] : n \in 0..MaxListLen}}

(* ------------------------------ actions ------------------------------- *)

\* A render of Review declares StarRating anew, so React mounts the form's
\* widget afresh: useState(0).
Remount == hoveredRating' = 0

\* Mutant: nothing in the form is disabled while a submission is pending.
FormEnabledWhileSubmitting == showForm

\* The form is rendered only while showForm, and its inputs, its submit
\* button and its cancel button are disabled while isSubmitting.
FormEnabled == showForm /\ ~isSubmitting

\* Room left in the model for one more submission to start and commit.
Room ==
    /\ Len(reviews) + Len(timers) < Len(Seeds) + MaxCommits
    /\ TimeLeq(AddMs(now, SubmitDelayMs), ClockEnd)

\* Mutant: the return after a failed validation is missing.
handleSubmitNoReturn ==
    /\ FormEnabled
    /\ formErrors' = ValidationErrors(newReview)
    /\ Room
    /\ isSubmitting' = TRUE
    /\ timers' = Append(timers, [draft |-> newReview,
                                 due |-> AddMs(now, SubmitDelayMs)])
    /\ UNCHANGED <<reviews, newReview, showForm, sortBy, filterRating,
                   reviewCountRef, now>>
    /\ Remount

\* handleSubmit up to its await.
handleSubmit ==
    /\ FormEnabled
    /\ formErrors' = ValidationErrors(newReview)
    /\ IF validateForm(newReview)
       THEN /\ Room
            /\ isSubmitting' = TRUE
            /\ timers' = Append(timers, [draft |-> newReview,
                                         due |-> AddMs(now, SubmitDelayMs)])
       ELSE UNCHANGED <<isSubmitting, timers>>
    /\ UNCHANGED <<reviews, newReview, showForm, sortBy, filterRating,
                   reviewCountRef, now>>
    /\ Remount

\* Mutant: the id is taken from the review's date, not from the instant.
NewReviewDayId(draft, t) ==
    [id |-> ParseDate(ToISODate(t)), name |-> draft.name,
     rating |-> draft.rating, comment |-> draft.comment,
     date |-> ToISODate(t)]

\* The review built after the await from the draft handleSubmit captured.
NewReview(draft, t) ==
    [id |-> t, name |-> draft.name, rating |-> draft.rating,
     comment |-> draft.comment, date |-> ToISODate(t)]

\* Mutant: the new review is put at the end of the list.
resumeSubmitAppend ==
    /\ timers # <<>>
    /\ TimeLeq(Head(timers).due, now)
    /\ reviews' = Append(reviews, NewReview(Head(timers).draft, now))
    /\ reviewCountRef' = reviewCountRef + 1
    /\ newReview' = EmptyDraft
    /\ formErrors' = EmptyErrors
    /\ showForm' = FALSE
    /\ isSubmitting' = FALSE
    /\ timers' = Tail(timers)
    /\ UNCHANGED <<sortBy, filterRating, now>>
    /\ Remount

\* Mutant: the review is built from the draft as it is when the timer fires.
resumeSubmitLiveDraft ==
    /\ timers # <<>>
    /\ TimeLeq(Head(timers).due, now)
    /\ reviews' = <<NewReview(newReview, now)>> \o reviews
    /\ reviewCountRef' = reviewCountRef + 1
    /\ newReview' = EmptyDraft
    /\ formErrors' = EmptyErrors
    /\ showForm' = FALSE
    /\ isSubmitting' = FALSE
    /\ timers' = Tail(timers)
    /\ UNCHANGED <<sortBy, filterRating, now>>
    /\ Remount

\* Mutant: setIsSubmitting(false) is missing after the commit.
resumeSubmitKeepsFlag ==
    /\ timers # <<>>
    /\ TimeLeq(Head(timers).due, now)
    /\ reviews' = <<NewReview(Head(timers).draft, now)>> \o reviews
    /\ reviewCountRef' = reviewCountRef + 1
    /\ newReview' = EmptyDraft
    /\ formErrors' = EmptyErrors
    /\ showForm' = FALSE
    /\ timers' = Tail(timers)
    /\ UNCHANGED <<isSubmitting, sortBy, filterRating, now>>
    /\ Remount

\* handleSubmit from its await on, once the timer has fired.
resumeSubmit ==
    /\ timers # <<>>
    /\ TimeLeq(Head(timers).due, now)
    /\ reviews' = <<NewReview(Head(timers).draft, now)>> \o reviews
    /\ reviewCountRef' = reviewCountRef + 1
    /\ newReview' = EmptyDraft
    /\ formErrors' = EmptyErrors
    /\ showForm' = FALSE
    /\ isSubmitting' = FALSE
    /\ timers' = Tail(timers)
    /\ UNCHANGED <<sortBy, filterRating, now>>
    /\ Remount

\* Mutant: an edit clears every error.
handleInputChangeClearsAll(name, value) ==
    /\ FormEnabled
    /\ newReview' = [newReview EXCEPT ![name] = value]
    /\ formErrors' = IF Truthy(formErrors, name)
                     THEN EmptyErrors
                     ELSE formErrors
    /\ UNCHANGED <<reviews, showForm, isSubmitting, sortBy, filterRating,
                   reviewCountRef, timers, now>>
    /\ Remount

handleInputChange(name, value) ==
    /\ FormEnabled
    /\ newReview' = [newReview EXCEPT ![name] = value]
    /\ formErrors' = IF Truthy(formErrors, name)
                     THEN WithKey(formErrors, name, "")
                     ELSE formErrors
    /\ UNCHANGED <<reviews, showForm, isSubmitting, sortBy, filterRating,
                   reviewCountRef, timers, now>>
    /\ Remount

\* Mutant: a star selection clears every error.
handleClickClearsAll(value) ==
    /\ showForm
    /\ newReview' = [newReview EXCEPT !.rating = value]
    /\ formErrors' = EmptyErrors
    /\ UNCHANGED <<reviews, showForm, isSubmitting, sortBy, filterRating,
                   reviewCountRef, timers, now>>
    /\ Remount

\* handleClick of the form's interactive StarRating, with handleRatingChange.
handleClick(value) ==
    /\ showForm
    /\ newReview' = [newReview EXCEPT !.rating = value]
    /\ formErrors' = WithKey(formErrors, "rating", "")
    /\ UNCHANGED <<reviews, showForm, isSubmitting, sortBy, filterRating,
                   reviewCountRef, timers, now>>
    /\ Remount

\* Mutant: closing the form keeps the draft and the errors.
handleFormToggleKeepsDraft ==
    /\ showForm' = ~showForm
    /\ UNCHANGED <<newReview, formErrors>>
    /\ UNCHANGED <<reviews, isSubmitting, sortBy, filterRating,
                   reviewCountRef, timers, now>>
    /\ Remount

\* Mutant: closing the form abandons the pending submission.
handleFormToggleCancels ==
    /\ showForm' = ~showForm
    /\ IF showForm
       THEN /\ newReview' = EmptyDraft /\ formErrors' = EmptyErrors
            /\ timers' = <<>> /\ isSubmitting' = FALSE
       ELSE UNCHANGED <<newReview, formErrors, timers, isSubmitting>>
    /\ UNCHANGED <<reviews, sortBy, filterRating, reviewCountRef, now>>
    /\ Remount

handleFormToggle ==
    /\ showForm' = ~showForm
    /\ IF showForm
       THEN newReview' = EmptyDraft /\ formErrors' = EmptyErrors
       ELSE UNCHANGED <<newReview, formErrors>>
    /\ UNCHANGED <<reviews, isSubmitting, sortBy, filterRating,
                   reviewCountRef, timers, now>>
    /\ Remount

handleCancelForm ==
    /\ FormEnabled
    /\ showForm' = FALSE
    /\ newReview' = EmptyDraft
    /\ formErrors' = EmptyErrors
    /\ UNCHANGED <<reviews, isSubmitting, sortBy, filterRating,
                   reviewCountRef, timers, now>>
    /\ Remount

\* Mutant: hovering a star selects it.
handleMouseEnterSelects(interactive, value) ==
    /\ interactive => showForm
    /\ IF interactive
       THEN /\ hoveredRating' = value
            /\ newReview' = [newReview EXCEPT !.rating = value]
       ELSE UNCHANGED <<hoveredRating, newReview>>
    /\ UNCHANGED <<reviews, showForm, isSubmitting, formErrors,
                   sortBy, filterRating, reviewCountRef, timers, now>>

\* handleMouseEnter of a StarRating; the interactive one is in the form.
handleMouseEnter(interactive, value) ==
    /\ interactive => showForm
    /\ IF interactive THEN hoveredRating' = value ELSE UNCHANGED hoveredRating
    /\ UNCHANGED <<reviews, newReview, showForm, isSubmitting, formErrors,
                   sortBy, filterRating, reviewCountRef, timers, now>>

handleMouseLeave(interactive) ==
    /\ interactive => showForm
    /\ IF interactive THEN hoveredRating' = 0 ELSE UNCHANGED hoveredRating
    /\ UNCHANGED <<reviews, newReview, showForm, isSubmitting, formErrors,
                   sortBy, filterRating, reviewCountRef, timers, now>>

\* Mutant: the stored array itself is sorted (reviews.sort without a copy).
setSortByInPlace(value) ==
    /\ sortBy' = value
    /\ reviews' = SortReviews(reviews, value)
    /\ UNCHANGED <<newReview, showForm, isSubmitting, formErrors,
                   filterRating, reviewCountRef, timers, now>>
    /\ Remount

\* The sort select's onChange: setSortBy(e.target.value); a state set to
\* the value it holds renders nothing.
setSortBy(value) ==
    /\ sortBy' = value
    /\ UNCHANGED <<reviews, newReview, showForm, isSubmitting, formErrors,
                   filterRating, reviewCountRef, timers, now>>
    /\ IF value = sortBy THEN UNCHANGED hoveredRating ELSE Remount

\* The filter select's onChange: setFilterRating(Number(e.target.value))
setFilterRating(value) ==
    /\ filterRating' = ToNumber(value)
    /\ UNCHANGED <<reviews, newReview, showForm, isSubmitting, formErrors,
                   sortBy, reviewCountRef, timers, now>>
    /\ IF ToNumber(value) = filterRating
       THEN UNCHANGED hoveredRating ELSE Remount

\* The wall clock advances.
Tick ==
    /\ TimeLeq(AddMs(now, SubmitDelayMs), ClockEnd)
    /\ now' = AddMs(now, SubmitDelayMs)
    /\ UNCHANGED <<reviews, newReview, showForm, isSubmitting, formErrors,
                   sortBy, filterRating, reviewCountRef, timers,
                   hoveredRating>>

InputChange ==
    \/ \E value \in NameInputs : handleInputChange("name", value)
    \/ \E value \in CommentInputs : handleInputChange("comment", value)

StarClick == \E value \in StarInputs : handleClick(value)

SortChange == \E value \in SortKeys : setSortBy(value)

FilterChange == \E value \in FilterInputs : setFilterRating(value)

Next ==
    \/ handleSubmit
    \/ resumeSubmit
    \/ InputChange
    \/ StarClick
    \/ handleFormToggle
    \/ handleCancelForm
    \/ SortChange
    \/ FilterChange
    \/ Tick

Spec == Init /\ [][Next]_vars

\* The clock keeps advancing and a timer that is due fires: the submission
\* delay ends.
Fairness == WF_vars(Tick) /\ WF_vars(resumeSubmit)

SpecLive == Spec /\ Fairness

(* The list operators on arbitrary lists: the component with any stored   *)
(* list, and the two selects.                                              *)

InitList ==
    /\ reviews \in ListInputs
    /\ newReview = EmptyDraft
    /\ showForm = FALSE
    /\ isSubmitting = FALSE
    /\ formErrors = EmptyErrors
    /\ sortBy = "date"
    /\ filterRating = 0
    /\ reviewCountRef = 2
    /\ timers = <<>>
    /\ now = Clock0
    /\ hoveredRating = 0

AnyFilterChange == \E value \in FilterOptions : setFilterRating(value)

NextList ==
    \/ SortChange
    \/ AnyFilterChange

SpecList == InitList /\ [][NextList]_vars

(* The rating widget: the component with every star value clicked and     *)
(* hovered, beside the form's other handlers.                              *)

AnyStarClick == \E value \in 1..MaxStars : handleClick(value)

MouseEnter ==
    \E interactive \in BOOLEAN, value \in 1..MaxStars :
        handleMouseEnter(interactive, value)

MouseLeave == \E interactive \in BOOLEAN : handleMouseLeave(interactive)

NameChange == \E value \in NameInputs : handleInputChange("name", value)

NextWidget ==
    \/ AnyStarClick
    \/ MouseEnter
    \/ MouseLeave
    \/ NameChange
    \/ handleSubmit
    \/ handleFormToggle
    \/ handleCancelForm

SpecWidget == Init /\ [][NextWidget]_vars

(* ============================== claims ================================ *)

\* The three validation rules as the specification words them.
NameRuleFails(draft) == Trim(draft.name) = <<>>

RatingRuleFails(draft) == draft.rating = 0

CommentRuleFails(draft) == Len(Trim(draft.comment)) < MinCommentLen

Violates(draft) ==
    NameRuleFails(draft) \/ RatingRuleFails(draft) \/ CommentRuleFails(draft)

\* C1: in every reachable state every stored review has a rating in 1..5, a
\* comment of at least 10 characters after trimming, and a name that is not
\* empty after trimming.
C1_StoredReviewsValid ==
    \A i \in 1..Len(reviews) :
        /\ reviews[i].rating \in 1..MaxStars
        /\ Len(Trim(reviews[i].comment)) >= MinCommentLen
        /\ Trim(reviews[i].name) # <<>>

\* A committed review whose name and comment carry surrounding white space.
C1_Witness ==
    /\ Len(reviews) > Len(Seeds)
    /\ reviews[1].name # Trim(reviews[1].name)
    /\ reviews[1].comment # Trim(reviews[1].comment)
    /\ Len(Trim(reviews[1].comment)) = MinCommentLen

\* C2: a submit of a draft that breaks a validation rule leaves the stored
\* list, the draft and the form's open state as they were and starts no
\* submission (isSubmitting stays false, no timer is set): only the error
\* map may change.
C2_InvalidSubmitOnlySetsErrors ==
    [][(Violates(newReview) /\ handleSubmit) =>
          /\ reviews' = reviews
          /\ newReview' = newReview
          /\ showForm' = showForm
          /\ ~isSubmitting /\ ~isSubmitting'
          /\ timers' = timers
          /\ reviewCountRef' = reviewCountRef]_vars

\* A rejected draft: the form is open with error messages, nothing is in
\* flight and the list holds the seeds only.
C2_Witness ==
    /\ showForm /\ ~isSubmitting /\ timers = <<>>
    /\ Violates(newReview)
    /\ \E f \in Fields : Truthy(formErrors, f)
    /\ reviews = Seeds

\* C3: after a submit the error map has a name error exactly when the
\* trimmed name is empty, a rating error exactly when the rating is 0, and a
\* comment error exactly when the trimmed comment has fewer than 10
\* characters, whatever the map held before.
C3_ErrorsMatchRules ==
    [][handleSubmit =>
          /\ Truthy(formErrors', "name") <=> NameRuleFails(newReview)
          /\ Truthy(formErrors', "rating") <=> RatingRuleFails(newReview)
          /\ Truthy(formErrors', "comment") <=> CommentRuleFails(newReview)]_vars

\* All three rules reported together.
C3_Witness ==
    /\ showForm
    /\ \A f \in Fields : Truthy(formErrors, f)

\* C4: a submit of a draft whose trimmed comment is empty sets the comment's
\* "required" message, and one whose trimmed comment has 1 to 9 characters
\* sets the "at least 10 characters" message.
C4_CommentErrorKind ==
    [][handleSubmit =>
          /\ Len(Trim(newReview.comment)) = 0 =>
                 /\ "comment" \in DOMAIN formErrors'
                 /\ formErrors'["comment"] = "Review comment is required"
          /\ Len(Trim(newReview.comment)) \in 1..(MinCommentLen - 1) =>
                 /\ "comment" \in DOMAIN formErrors'
                 /\ formErrors'["comment"] =
                        "Review must be at least 10 characters long"]_vars

\* A comment of white space only, reported as required.
C4_Witness ==
    /\ newReview.comment # <<>>
    /\ Trim(newReview.comment) = <<>>
    /\ Truthy(formErrors, "comment")
    /\ formErrors["comment"] = "Review comment is required"

\* C5: the step that completes a submission puts exactly one review in
\* front of the previous list, and that review has the name, rating and
\* comment of the draft that was submitted.
C5_CommitPrepends ==
    [][Len(timers') < Len(timers) =>
          /\ Len(reviews') = Len(reviews) + 1
          /\ Tail(reviews') = reviews
          /\ Head(reviews').name = Head(timers).draft.name
          /\ Head(reviews').rating = Head(timers).draft.rating
          /\ Head(reviews').comment = Head(timers).draft.comment]_vars

\* One commit: a new review in front of the two seeds.
C5_Witness ==
    /\ Len(reviews) = Len(Seeds) + 1
    /\ Tail(reviews) = Seeds
    /\ reviews[1].rating = 4
    /\ reviewCountRef = 3

\* C6: the stored reviews have pairwise distinct ids, and every review that
\* was committed (every one in front of the two seeds, which hold ids 1 and
\* 2) has an id strictly greater than the id of every review behind it,
\* that is of every review committed before it and of the seeds.
C6_IdsUniqueAndIncreasing ==
    /\ \A i, j \in 1..Len(reviews) : i # j => reviews[i].id # reviews[j].id
    /\ SubSeq(reviews, Len(reviews) - 1, Len(reviews)) = Seeds
    /\ \A i, j \in 1..Len(reviews) :
          (i < j /\ i <= Len(reviews) - Len(Seeds)) =>
              TimeLess(reviews[j].id, reviews[i].id)

\* Two commits on the same calendar day.
C6_Witness ==
    /\ Len(reviews) = Len(Seeds) + 2
    /\ reviews[1].date = reviews[2].date

\* The ratings of a list, and their sum counted rating by rating.
RatingsOf(list) == [i \in 1..Len(list) |-> list[i].rating]

CountedSum(list) ==
    LET n(r) == Cardinality({i \in 1..Len(list) : list[i].rating = r})
    IN  n(1) + 2 * n(2) + 3 * n(3) + 4 * n(4) + 5 * n(5)

\* C7: the average rating is 0 for the empty list and otherwise a tenth
\* nearest to sum(ratings)/count (in tenths: no further than half a tenth
\* from it); for the ratings [5,4] it is 4.5.
C7_AverageIsRoundedMean ==
    /\ Len(reviews) = 0 => averageRating = 0
    /\ Len(reviews) > 0 =>
          /\ 2 * (10 * CountedSum(reviews) - averageRating * Len(reviews))
                 <= Len(reviews)
          /\ 2 * (averageRating * Len(reviews) - 10 * CountedSum(reviews))
                 <= Len(reviews)
    /\ RatingsOf(reviews) = <<5, 4>> => averageRating = 45

\* 14/3 = 4.666..., shown as 4.7.
C7_Witness ==
    /\ RatingsOf(reviews) = <<5, 5, 4>>
    /\ averageRating = 47

\* The view's order under a sort key.
DateDescending(v) ==
    \A i, j \in 1..Len(v) : i < j => v[i].date >= v[j].date

RatingThenDateDescending(v) ==
    \A i, j \in 1..Len(v) :
        i < j => \/ v[i].rating > v[j].rating
                 \/ v[i].rating = v[j].rating /\ v[i].date >= v[j].date

\* The specification's example list: ratings 3, 5, 5 with the third dated
\* after the second.
IsSortExample ==
    /\ RatingsOf(reviews) = <<3, 5, 5>>
    /\ reviews[3].date > reviews[2].date

\* C8: with sortKey "date" the view is ordered by date descending; with
\* sortKey "rating" it is ordered by rating descending and, among equal
\* ratings, by date descending; on the example list with no filter the
\* view under "rating" is the third, the second, then the first review.
C8_SortOrder ==
    /\ sortBy = "date" => DateDescending(sortedAndFilteredReviews)
    /\ sortBy = "rating" => RatingThenDateDescending(sortedAndFilteredReviews)
    /\ (IsSortExample /\ sortBy = "rating" /\ filterRating = 0) =>
          sortedAndFilteredReviews = <<reviews[3], reviews[2], reviews[1]>>

\* The example list viewed by rating.
C8_Witness ==
    /\ IsSortExample
    /\ sortBy = "rating"
    /\ filterRating = 0
    /\ sortedAndFilteredReviews # reviews

IdsOf(list) == {list[i].id : i \in 1..Len(list)}

\* C9: with filterRating 0 the view holds every stored review, with
\* filterRating r in 1..5 exactly the stored reviews rated r, each once, and
\* in both cases in the order the sort key gives them in the unfiltered view.
C9_FilterExact ==
    LET v == sortedAndFilteredReviews
        kept == {i \in 1..Len(reviews) :
                    filterRating = 0 \/ reviews[i].rating = filterRating}
        unfiltered == ListReviews(reviews, sortBy, 0)
    IN  /\ Len(v) = Cardinality(kept)
        /\ \A k \in 1..Len(v) : \E i \in kept : v[k] = reviews[i]
        /\ \A i \in kept : \E k \in 1..Len(v) : v[k] = reviews[i]
        /\ filterRating = 0 => Len(v) = Len(reviews)
        /\ v = SelectSeq(unfiltered,
                         LAMBDA x : filterRating = 0 \/ x.rating = filterRating)

\* A filter that keeps some reviews and drops others, lower and higher.
C9_Witness ==
    /\ filterRating = 4
    /\ Len(sortedAndFilteredReviews) = 2
    /\ \E i \in 1..Len(reviews) : reviews[i].rating = 5
    /\ \E i \in 1..Len(reviews) : reviews[i].rating = 3
    /\ sortBy = "rating"

\* C10: a step that changes sortKey or filterRating leaves the stored list,
\* the average, the draft and the error map as they were.
C10_ViewNonDestructive ==
    [][(sortBy' # sortBy \/ filterRating' # filterRating) =>
          /\ reviews' = reviews
          /\ averageRating' = averageRating
          /\ newReview' = newReview
          /\ formErrors' = formErrors]_vars

\* A view that differs from the stored list, beside a draft with errors.
C10_Witness ==
    /\ sortBy = "rating"
    /\ filterRating = 0
    /\ Len(reviews) > Len(Seeds)
    /\ sortedAndFilteredReviews # reviews
    /\ newReview # EmptyDraft
    /\ \E f \in Fields : Truthy(formErrors, f)

\* The same entry, present or absent, in two error maps.
SameError(a, b, f) ==
    /\ f \in DOMAIN a <=> f \in DOMAIN b
    /\ f \in DOMAIN a => a[f] = b[f]

\* The name, rating and comment of a review are those of a draft.
Carries(review, draft) ==
    /\ review.name = draft.name
    /\ review.rating = draft.rating
    /\ review.comment = draft.comment

\* C11: a star selection of v sets the draft's rating to v and leaves no
\* rating error; the name and comment errors are what they were, and so are
\* the draft's name and comment.
C11_StarClearsRatingErrorOnly ==
    [][\A v \in 1..MaxStars :
          handleClick(v) =>
             /\ newReview'.rating = v
             /\ ~Truthy(formErrors', "rating")
             /\ SameError(formErrors, formErrors', "name")
             /\ SameError(formErrors, formErrors', "comment")
             /\ newReview'.name = newReview.name
             /\ newReview'.comment = newReview.comment]_vars

\* A star selected after a submit that reported all three errors.
C11_Witness ==
    /\ newReview.rating = 5
    /\ "rating" \in DOMAIN formErrors /\ formErrors["rating"] = ""
    /\ Truthy(formErrors, "name")
    /\ Truthy(formErrors, "comment")

\* The positions of the filled stars.
FilledStars(flags) == {star \in DOMAIN flags : flags[star]}

\* C12: the form's widget shows five stars, filled exactly up to the hover
\* value when there is one and up to the rating otherwise.
C12_StarsFollowHoverThenRating ==
    /\ DOMAIN formStars = 1..5
    /\ hoveredRating \in 0..5 /\ newReview.rating \in 0..5
    /\ hoveredRating # 0 => FilledStars(formStars) = 1..hoveredRating
    /\ hoveredRating = 0 => FilledStars(formStars) = 1..newReview.rating

\* A hover below the selected rating.
C12_Witness ==
    /\ hoveredRating = 2
    /\ newReview.rating = 5
    /\ FilledStars(formStars) = {1, 2}

\* C13: at most one submission is ever in flight, and no step taken while
\* isSubmitting starts one.
C13_OneSubmissionInFlight ==
    [][/\ Len(timers') <= 1
       /\ isSubmitting => Len(timers') <= Len(timers)]_vars

\* A submission in flight beside an open form holding a valid draft.
C13_Witness ==
    /\ isSubmitting
    /\ Len(timers) = 1
    /\ showForm
    /\ validateForm(newReview)

\* C14: a pending submission is untouched by every step but its own commit,
\* which removes it and puts exactly one review, carrying its draft, in
\* front of the list; and a pending submission leads to a state with nothing
\* pending, which only that commit brings about.
C14_PendingSubmissionCommitsOnce ==
    /\ [][timers # <<>> =>
             \/ timers' = timers /\ reviews' = reviews
             \/ /\ timers' = Tail(timers)
                /\ Tail(reviews') = reviews
                /\ Carries(Head(reviews'), Head(timers).draft)]_vars
    /\ timers # <<>> ~> timers = <<>>

\* The form was closed and opened again, and the view sorted, during the
\* delay.
C14_Witness ==
    /\ timers # <<>>
    /\ showForm
    /\ newReview = EmptyDraft
    /\ sortBy = "rating"

\* C15: isSubmitting is true exactly while a submission is pending; it
\* turns true in a step that starts a submission of a valid draft, turns
\* false in the step that commits the review, and once true it becomes
\* false again.
C15_FlagTracksPendingSubmission ==
    /\ [](isSubmitting <=> timers # <<>>)
    /\ [][((~isSubmitting /\ isSubmitting') =>
               (Len(timers') = Len(timers) + 1 /\ ~Violates(newReview)))
           /\ ((isSubmitting /\ ~isSubmitting') =>
                  Len(reviews') = Len(reviews) + 1)]_vars
    /\ isSubmitting ~> ~isSubmitting

\* The flag still set after a star was selected during the delay.
C15_Witness ==
    /\ isSubmitting
    /\ showForm
    /\ newReview.rating # 0
    /\ newReview.rating # Head(timers).draft.rating

\* C16: while the form is closed the draft is the empty draft and no error is
\* active, however the form was closed (cancel, toggle, commit).
C16_ClosedFormHasNoDraft ==
    ~showForm =>
        /\ newReview = EmptyDraft
        /\ \A f \in Fields : ~Truthy(formErrors, f)

\* The form closed by the toggle while its submission is still pending.
C16_Witness ==
    /\ ~showForm
    /\ isSubmitting
    /\ timers # <<>>
    /\ Head(timers).draft # newReview

EditOf(f) ==
    \/ f = "name" /\ \E v \in NameInputs : handleInputChange("name", v)
    \/ f = "comment" /\ \E v \in CommentInputs : handleInputChange("comment", v)
    \/ f = "rating" /\ \E v \in 1..MaxStars : handleClick(v)

\* C17: an edit of the name or the comment leaves no error for that field,
\* leaves every other field's error, the draft's other fields and the list
\* as they were; and a step that clears a field's error is an edit of that
\* field (for the rating, a star selection) or a reset of the whole form.
C17_EditClearsOwnErrorOnly ==
    [][/\ \A f \in {"name", "comment"} :
             EditOf(f) =>
                /\ ~Truthy(formErrors', f)
                /\ \A g \in Fields \ {f} :
                       /\ SameError(formErrors, formErrors', g)
                       /\ newReview'[g] = newReview[g]
                /\ reviews' = reviews
       /\ \A f \in Fields :
             (Truthy(formErrors, f) /\ ~Truthy(formErrors', f)) =>
                \/ EditOf(f)
                \/ formErrors' = EmptyErrors /\ newReview' = EmptyDraft]_vars

\* The name edited after a submit that reported all three errors.
C17_Witness ==
    /\ "name" \in DOMAIN formErrors /\ formErrors["name"] = ""
    /\ Trim(newReview.name) # <<>>
    /\ Truthy(formErrors, "rating")
    /\ Truthy(formErrors, "comment")

\* C18: pointer enter and pointer leave on a star change neither the draft,
\* the error map nor the list; after a pointer leave on the form's widget
\* there is no hover value and the stars are filled up to the rating.
C18_HoverChangesNothingElse ==
    [][/\ (\/ \E i \in BOOLEAN, v \in 1..MaxStars : handleMouseEnter(i, v)
           \/ \E i \in BOOLEAN : handleMouseLeave(i)) =>
             /\ newReview' = newReview
             /\ formErrors' = formErrors
             /\ reviews' = reviews
       /\ handleMouseLeave(TRUE) =>
             /\ hoveredRating' = 0
             /\ FilledStars(formStars') = 1..newReview'.rating]_vars

\* A hover above the selected rating, beside a reported error.
C18_Witness ==
    /\ hoveredRating = 4
    /\ newReview.rating = 1
    /\ Truthy(formErrors, "name")

\* The list with its k-th element left out.
Without(list, k) == [i \in 1..(Len(list) - 1) |->
                        IF i < k THEN list[i] ELSE list[i + 1]]

\* C19: every step leaves each stored review in the list, with its fields
\* and in its order among the others: the list after the step is the list
\* before it, or that list with one review added; it never gets shorter and
\* never holds fewer than the two seeds.
C19_StoredReviewsPermanent ==
    [][/\ \/ reviews' = reviews
          \/ \E k \in 1..Len(reviews') : Without(reviews', k) = reviews
       /\ Len(reviews') >= Len(reviews)
       /\ Len(reviews') >= 2]_vars

\* Two commits, viewed by rating in an order other than the stored one.
C19_Witness ==
    /\ Len(reviews) = Len(Seeds) + 2
    /\ sortBy = "rating"
    /\ sortedAndFilteredReviews # reviews
    /\ SubSeq(reviews, 3, 4) = Seeds

\* C20: the draft a submission holds is the draft that passed validation
\* when it started, no step changes it while the submission is pending, and
\* the review committed carries it, whatever the draft is by then.
C20_CommitCarriesValidatedDraft ==
    [][/\ Len(timers') > Len(timers) =>
             /\ timers'[Len(timers')].draft = newReview
             /\ ~Violates(newReview)
       /\ (timers # <<>> /\ Len(timers') = Len(timers)) => timers' = timers
       /\ Len(timers') < Len(timers) =>
             /\ Carries(Head(reviews'), Head(timers).draft)
             /\ ~Violates(Head(timers).draft)]_vars

\* A commit is due while the draft, reset by closing the form and then given
\* another rating, is no longer the one that was validated.
C20_Witness ==
    /\ timers # <<>>
    /\ TimeLeq(Head(timers).due, now)
    /\ showForm
    /\ newReview.name = <<>>
    /\ newReview.rating \notin {0, Head(timers).draft.rating}

\* C21: with the clock never going backwards from the day of the newest seed
\* review, the stored list is in date-descending order in every reachable
\* state, and the extended variant's view with sort key "date" and filter 0
\* is, element for element, the stored list that the basic variant renders;
\* so in the default selection the two variants display the same list.
C21_DefaultViewIsStoredList ==
    /\ DateDescending(reviews)
    /\ ListReviews(reviews, "date", 0) = reviewsList
    /\ (sortBy = "date" /\ filterRating = 0)
          => sortedAndFilteredReviews = reviewsList

\* Two reviews were committed, one before and one after the date changed:
\* the older one shares its date with the newest seed review, and the
\* selects are at their defaults.
C21_Witness ==
    /\ Len(reviews) = Len(Seeds) + 2
    /\ reviews[1].date > reviews[2].date
    /\ reviews[2].date = reviews[3].date
    /\ reviews[3] = Seeds[1]
    /\ sortBy = "date"
    /\ filterRating = 0

====
